---------------------------- MODULE Spec2Model ----------------------------
(***************************************************************************)
(* Zoom meeting scheduler: the OAuth token lifecycle of the Flask service  *)
(* (AgentAI/app.py) and the request validation of the service and of its   *)
(* agent-side client (AgentAI/root_agent/ZoomAPI.py).                      *)
(*                                                                         *)
(* JSON objects and Python dicts are functions from key strings to values; *)
(* an absent key is a key outside the DOMAIN.  Instants are integers, in   *)
(* seconds.  Exceptions are values: an operator that can raise returns a   *)
(* record with the field ok, and the caller routes ok = FALSE to the       *)
(* except clause that catches it in the source.                            *)
(***************************************************************************)
EXTENDS Integers, Sequences, FiniteSets, TLC

(***************************************************************************)
(* Bounds of the model.                                                    *)
(***************************************************************************)
\* the clock stops advancing at MaxNow
MaxNow == 160
\* seconds the clock advances in one Tick
TickStep == 40
\* token pairs the provider issues in one behaviour
MaxIssued == 2

(***************************************************************************)
(* Python dicts                                                            *)
(***************************************************************************)
EmptyDict == [k \in {} |-> 0]

Has(d, k) == k \in DOMAIN d

\* d.get(k, default)
Get(d, k, default) == IF k \in DOMAIN d THEN d[k] ELSE default

\* d[k] = v
Put(d, k, v) == [x \in (DOMAIN d) \cup {k} |-> IF x = k THEN v ELSE d[x]]

(***************************************************************************)
(* JSON scalars that reach int(): a duration of the request body, a        *)
(* Retry-After header.  kind says what the value is, n carries its         *)
(* number: "int" is the integer n, "float" the number n + 1/2, "numstr"    *)
(* the decimal string of n, "badstr" a string that is no integer literal   *)
(* (an HTTP date, "abc"), "null" is None.                                  *)
(***************************************************************************)
JInt(n) == [kind |-> "int", n |-> n]
JFloat(n) == [kind |-> "float", n |-> n]
JNumStr(n) == [kind |-> "numstr", n |-> n]
JBadStr == [kind |-> "badstr", n |-> 0]
JNull == [kind |-> "null", n |-> 0]

\* Python's int(v): truncates a float, parses a decimal string, raises
\* ValueError on any other string and TypeError on None.
PyInt(v) ==
    CASE v.kind = "int" -> [ok |-> TRUE, n |-> v.n, exc |-> ""]
      [] v.kind = "float" -> [ok |-> TRUE, n |-> v.n, exc |-> ""]
      [] v.kind = "numstr" -> [ok |-> TRUE, n |-> v.n, exc |-> ""]
      [] v.kind = "badstr" ->
            [ok |-> FALSE, n |-> 0, exc |-> "ValueError: invalid literal for int()"]
      [] OTHER ->
            [ok |-> FALSE, n |-> 0, exc |-> "TypeError: int() argument"]

(***************************************************************************)
(* Time zones (pytz).  Clock readings of a start time are seconds since    *)
(* 2025-11-02T00:00:00 on the wall clock they are read from.               *)
(***************************************************************************)
\* pytz.all_timezones, the names the model uses
AllTimezones == {"Asia/Kolkata", "America/New_York", "UTC"}

\* pytz.timezone(name) looks the name up without regard to case; a name it
\* does not know raises UnknownTimeZoneError.
ZoneLookup(name) ==
    CASE name \in AllTimezones -> [ok |-> TRUE, zone |-> name]
      [] name = "asia/kolkata" -> [ok |-> TRUE, zone |-> "Asia/Kolkata"]
      [] OTHER -> [ok |-> FALSE, zone |-> ""]

\* The UTC offset tz.localize(dt) gives wall-clock reading sec (is_dst=False):
\* New York leaves daylight time on 2025-11-02 at 02:00, so the readings
\* before 01:00 are EDT and the repeated hour from 01:00 reads as EST.
UtcOffset(zone, sec) ==
    CASE zone = "Asia/Kolkata" -> 19800
      [] zone = "America/New_York" -> IF sec < 3600 THEN -14400 ELSE -18000
      [] OTHER -> 0

(***************************************************************************)
(* ISO-8601 strings and datetime objects.  A string is a record: kind is   *)
(* "naive" (no offset), "offset" (ends in +HH:MM or -HH:MM, off seconds),  *)
(* "zulu" (ends in Z), "empty" (the empty string) or "bad" (anything       *)
(* fromisoformat rejects); sec is the clock reading and us its             *)
(* microseconds.  A datetime is a record with aware = FALSE for a naive    *)
(* one.                                                                    *)
(***************************************************************************)
IsoStr(kind, sec, us, off) == [kind |-> kind, sec |-> sec, us |-> us, off |-> off]

\* s.replace("Z", "+00:00")
ReplaceZ(s) == IF s.kind = "zulu" THEN [s EXCEPT !.kind = "offset", !.off = 0] ELSE s

\* datetime.fromisoformat(s)
FromIsoformat(s) ==
    CASE s.kind = "naive" ->
            [ok |-> TRUE, dt |-> [sec |-> s.sec, us |-> s.us, aware |-> FALSE, off |-> 0]]
      [] s.kind = "offset" ->
            [ok |-> TRUE, dt |-> [sec |-> s.sec, us |-> s.us, aware |-> TRUE, off |-> s.off]]
      [] OTHER ->
            [ok |-> FALSE, dt |-> [sec |-> 0, us |-> 0, aware |-> FALSE, off |-> 0]]

\* Localize with the zone's offset left out: the reading is taken as UTC.
LocalizeAsUTC(zone, dt) == [dt EXCEPT !.aware = TRUE, !.off = 0]

\* tz.localize(dt)
Localize(zone, dt) == [dt EXCEPT !.aware = TRUE, !.off = UtcOffset(zone, dt.sec)]

\* dt.astimezone(pytz.UTC)
AsUTC(dt) == [dt EXCEPT !.sec = dt.sec - dt.off, !.off = 0]

\* dt.isoformat(timespec='seconds'): the microseconds are dropped
IsoformatSeconds(dt) ==
    IsoStr(IF dt.aware THEN "offset" ELSE "naive", dt.sec, 0, dt.off)

\* s.replace("+00:00", "Z")
ReplaceUtcOffset(s) ==
    IF s.kind = "offset" /\ s.off = 0 THEN [s EXCEPT !.kind = "zulu"] ELSE s

\* AppToUtcIso with the zone applied to every parsed start time, also to one
\* that carries its own offset (the test of tzinfo left out).
AppToUtcIsoAlwaysLocalizes(start_time, timezone) ==
    LET p == FromIsoformat(ReplaceZ(start_time))
        z == ZoneLookup(timezone)
        bad == [ok |-> FALSE, iso |-> IsoStr("bad", 0, 0, 0), exc |-> ""]
    IN  IF ~p.ok THEN [bad EXCEPT !.exc = "Invalid isoformat string"]
        ELSE IF ~z.ok THEN [bad EXCEPT !.exc = "UnknownTimeZoneError"]
        ELSE [ok |-> TRUE,
              iso |-> ReplaceUtcOffset(IsoformatSeconds(AsUTC(Localize(z.zone, p.dt)))),
              exc |-> ""]

\* app.py lines 152-158: parse the start time, read a naive one in the
\* zone, convert to UTC and print it with the Z marker.  ok = FALSE is the
\* exception the block's except clause catches.
AppToUtcIso(start_time, timezone) ==
    LET p == FromIsoformat(ReplaceZ(start_time))
        z == ZoneLookup(timezone)
        bad == [ok |-> FALSE, iso |-> IsoStr("bad", 0, 0, 0), exc |-> ""]
    IN  IF ~p.ok THEN [bad EXCEPT !.exc = "Invalid isoformat string"]
        ELSE IF ~p.dt.aware /\ ~z.ok THEN [bad EXCEPT !.exc = "UnknownTimeZoneError"]
        ELSE LET dt == IF p.dt.aware THEN p.dt ELSE Localize(z.zone, p.dt)
             IN  [ok |-> TRUE,
                  iso |-> ReplaceUtcOffset(IsoformatSeconds(AsUTC(dt))),
                  exc |-> ""]

\* ZoomAPI.py lines 53-58: the same steps on the agent's side, where the
\* zone name has not been checked yet.
AgentToUtcIso(start_time, timezone) ==
    LET p == FromIsoformat(ReplaceZ(start_time))
        z == ZoneLookup(timezone)
        bad == [ok |-> FALSE, iso |-> IsoStr("bad", 0, 0, 0), exc |-> ""]
    IN  IF ~p.ok THEN [bad EXCEPT !.exc = "Invalid isoformat string"]
        ELSE IF ~p.dt.aware /\ ~z.ok THEN [bad EXCEPT !.exc = "UnknownTimeZoneError"]
        ELSE LET dt == IF p.dt.aware THEN p.dt ELSE Localize(z.zone, p.dt)
             IN  [ok |-> TRUE,
                  iso |-> ReplaceUtcOffset(IsoformatSeconds(AsUTC(dt))),
                  exc |-> ""]

(***************************************************************************)
(* app.py, schedule_meeting: the request body and its validation           *)
(***************************************************************************)
\* a response of the service: jsonify(body), status
Response(status, body) == [status |-> status, body |-> body]

\* the body {"success": False, "error": msg}
ErrorBody(msg) == [success |-> FALSE, error |-> msg]

Required == <<"topic", "start_time", "duration", "timezone">>

\* the fields of Required that data lacks, in order
MissingOf(data) == SelectSeq(Required, LAMBDA f : ~Has(data, f))

\* Lines 131-160, up to the token: ok = FALSE with the response the handler
\* returns, or ok = TRUE with the values it goes on with.  req.json_ok =
\* FALSE is a body request.get_json() raises on; the handler's outer
\* except turns that, and a duration int() raises on, into a 500.
AppValidate(req) ==
    IF ~req.json_ok
    THEN [ok |-> FALSE, resp |-> Response(500, ErrorBody("400 Bad Request"))]
    ELSE LET data == req.data IN
    IF DOMAIN data = {}
    THEN [ok |-> FALSE, resp |-> Response(400, ErrorBody("JSON body required"))]
    ELSE IF MissingOf(data) # <<>>
    THEN [ok |-> FALSE,
          resp |-> Response(400, ErrorBody("Missing: " \o Head(MissingOf(data))))]
    ELSE LET d == PyInt(data["duration"]) IN
    IF ~d.ok
    THEN [ok |-> FALSE, resp |-> Response(500, ErrorBody(d.exc))]
    ELSE IF data["timezone"] \notin AllTimezones
    THEN [ok |-> FALSE,
          resp |-> Response(400, ErrorBody("Invalid timezone: " \o data["timezone"]))]
    ELSE LET c == AppToUtcIso(data["start_time"], data["timezone"]) IN
    IF ~c.ok
    THEN [ok |-> FALSE,
          resp |-> Response(400, ErrorBody("Invalid start_time: " \o c.exc))]
    ELSE [ok |-> TRUE,
          topic |-> data["topic"],
          duration |-> d.n,
          iso_start |-> c.iso,
          timezone_str |-> data["timezone"],
          data |-> data]

\* Lines 180-191: the body of the create-meeting request
MeetingPayload(v) ==
    [topic |-> v.topic,
     type |-> 2,
     start_time |-> v.iso_start,
     duration |-> v.duration,
     timezone |-> v.timezone_str,
     settings |-> [join_before_host |-> Get(v.data, "join_before_host", TRUE),
                   mute_upon_entry |-> Get(v.data, "mute_upon_entry", TRUE),
                   waiting_room |-> Get(v.data, "waiting_room", FALSE)]]

(***************************************************************************)
(* ZoomAPI.py, schedule_meeting: the agent-side validation, up to the POST *)
(* to the service                                                          *)
(***************************************************************************)
\* DurationMissing with the test for None alone.
DurationMissingOnlyNone(duration) ==
    [ok |-> TRUE, missing |-> duration.kind = "null"]

\* duration is None or duration <= 0; comparing a string with 0 raises
\* TypeError, which nothing in the function catches.
DurationMissing(duration) ==
    CASE duration.kind = "null" -> [ok |-> TRUE, missing |-> TRUE]
      [] duration.kind = "int" -> [ok |-> TRUE, missing |-> duration.n <= 0]
      [] duration.kind = "float" -> [ok |-> TRUE, missing |-> duration.n < 0]
      [] OTHER -> [ok |-> FALSE, missing |-> FALSE]

\* Lines 36-82.  kind is "raised" (an uncaught TypeError), "missing" (the
\* result that asks for the fields of missing), "bad_start", "bad_tz", or
\* "post": the request body sent to the service.
AgentValidate(a) ==
    LET dm == DurationMissing(a.duration)
        missing ==
            (IF a.topic = "" THEN <<"topic">> ELSE <<>>)
            \o (IF a.start_time.kind = "empty" THEN <<"start_time">> ELSE <<>>)
            \o (IF dm.missing THEN <<"duration">> ELSE <<>>)
            \o (IF a.timezone = "" THEN <<"timezone">> ELSE <<>>)
        c == AgentToUtcIso(a.start_time, a.timezone)
    IN  IF ~dm.ok THEN [kind |-> "raised", is_error |-> TRUE]
        ELSE IF missing # <<>>
        THEN [kind |-> "missing", is_error |-> FALSE, missing |-> missing]
        ELSE IF ~c.ok THEN [kind |-> "bad_start", is_error |-> TRUE]
        ELSE IF a.timezone \notin AllTimezones THEN [kind |-> "bad_tz", is_error |-> TRUE]
        ELSE [kind |-> "post",
              is_error |-> FALSE,
              payload |-> [topic |-> a.topic,
                           start_time |-> c.iso,
                           duration |-> a.duration,
                           timezone |-> a.timezone,
                           join_before_host |-> a.join_before_host,
                           mute_upon_entry |-> a.mute_upon_entry,
                           waiting_room |-> a.waiting_room]]

(***************************************************************************)
(* app.py, token helpers (lines 42-74)                                     *)
(***************************************************************************)
\* the safety margin of token_expired and the default lifetime, in seconds
Margin == 120
DefaultLifetime == 3600

\* The token file is a set: empty when zoom_token.json does not exist,
\* else the one JSON object it holds.
NoFile == {}

\* save_token(token): the file holds token and nothing else
SaveToken(token) == {token}

\* How the bytes of a file that exists read.  Clean: the bytes are the dump
\* of the one object the file holds.  Truncated: open(TOKEN_FILE, "w") has
\* emptied the file and nothing is written yet.  Extra(n): the dump of the
\* object is followed by the last n characters of a longer text written
\* before.
\* json.load raises JSONDecodeError on the last two.
Clean == [kind |-> "json", tail |-> 0]
Truncated == [kind |-> "empty", tail |-> 0]
Extra(n) == [kind |-> "extra", tail |-> n]

\* The keys of a token record and their lengths
KeyLen ==
    [k \in {"access_token", "refresh_token", "expires_in", "expires_at"} |->
        IF k = "access_token" THEN 12 ELSE IF k = "refresh_token" THEN 13 ELSE 10]

\* Characters of the decimal numeral of n (0 <= n < 100000)
Digits(n) ==
    IF n < 10 THEN 1 ELSE IF n < 100 THEN 2 ELSE IF n < 1000 THEN 3
    ELSE IF n < 10000 THEN 4 ELSE 5

\* Characters of json.dump(token, f, indent=2): the two braces and, for each
\* key, a line of two spaces, the quoted key, a colon and a space, the
\* value, and a comma or the last newline.
DumpSize(token) ==
    LET line(k) == IF Has(token, k) THEN KeyLen[k] + Digits(token[k]) + 8 ELSE 0
    IN  2 + line("access_token") + line("refresh_token")
          + line("expires_in") + line("expires_at")

\* Characters of the file whose object is the one of file and whose bytes
\* read as text.
FileSize(file, text) ==
    IF text.kind = "empty" THEN 0 ELSE DumpSize(CHOOSE x \in file : TRUE) + text.tail

\* Line 54 and the end of the with block: the dump of token, buffered since
\* the file was opened, is written at the start of the file, whatever the
\* file holds by then; what lies beyond the dump stays.
WriteDump(file, text, token) ==
    [file |-> {token},
     text |-> IF FileSize(file, text) > DumpSize(token)
              THEN Extra(FileSize(file, text) - DumpSize(token))
              ELSE Clean]

\* load_token() at instant t on a file that exists: the record it returns
\* and the file it leaves.  A record without expires_at gets one and is
\* written back.
LoadToken(file, t) ==
    LET stored == CHOOSE x \in file : TRUE
        token == IF Has(stored, "expires_at") THEN stored
                 ELSE Put(stored, "expires_at", t + Get(stored, "expires_in", DefaultLifetime))
    IN  [token |-> token,
         file |-> IF Has(stored, "expires_at") THEN file ELSE SaveToken(token)]

\* token_expired(token) at instant t
TokenExpired(token, t) == t > Get(token, "expires_at", 0) - Margin

\* refresh_access_token, lines 71-72: the record made of a 200 response
RefreshRecord(body, t) ==
    Put(body, "expires_at", t + Get(body, "expires_in", DefaultLifetime))

\* CallbackRecord with the declared lifetime ignored.
CallbackRecordDefaultLifetime(body, t) == Put(body, "expires_at", t + DefaultLifetime)

\* oauth_callback, lines 113-114: the record made of a 200 response
CallbackRecord(body, t) ==
    Put(body, "expires_at", t + Get(body, "expires_in", DefaultLifetime))

(***************************************************************************)
(* The provider (zoom.us), as its answers: any of them can come back.      *)
(***************************************************************************)
\* lifetimes the token endpoint declares
ExpiresIns == {60, 200}

\* A 200 answer of the token endpoint issuing token pair n: complete, or
\* without expires_in, or without refresh_token, or an empty object.
TokenBodies(n) ==
    {[access_token |-> n, refresh_token |-> n, expires_in |-> e] : e \in ExpiresIns}
    \cup {[access_token |-> n, refresh_token |-> n],
          [access_token |-> n, expires_in |-> 200],
          EmptyDict}

\* the answers of https://zoom.us/oauth/token when n pairs were issued
TokenResponses(n) ==
    {[status |-> 400, body |-> EmptyDict, text |-> "invalid_grant"]}
    \cup (IF n < MaxIssued
          THEN {[status |-> 200, body |-> b, text |-> "json"] : b \in TokenBodies(n + 1)}
          ELSE {})

\* the meeting object of a 201 answer
MeetingObject(payload) ==
    [id |-> 1, topic |-> payload.topic, join_url |-> "https://zoom.us/j/1",
     start_url |-> "https://zoom.us/s/1", password |-> "pw",
     start_time |-> payload.start_time, duration |-> payload.duration,
     timezone |-> payload.timezone, created_at |-> "created"]

\* the values of the Retry-After header of a 429: none, delay seconds, a date
RetryAfterHeaders ==
    {EmptyDict,
     [x \in {"Retry-After"} |-> JNumStr(45)],
     [x \in {"Retry-After"} |-> JBadStr]}

\* the answers of POST /v2/users/me/meetings
MeetingResponses(payload) ==
    {[status |-> 201, headers |-> EmptyDict, json_ok |-> TRUE,
      json |-> MeetingObject(payload), text |-> "json"],
     [status |-> 201, headers |-> EmptyDict, json_ok |-> FALSE,
      json |-> EmptyDict, text |-> "<html>"],
     [status |-> 400, headers |-> EmptyDict, json_ok |-> TRUE,
      json |-> EmptyDict, text |-> "{'code': 300}"],
     [status |-> 401, headers |-> EmptyDict, json_ok |-> FALSE,
      json |-> EmptyDict, text |-> "Invalid access token"],
     [status |-> 200, headers |-> EmptyDict, json_ok |-> TRUE,
      json |-> EmptyDict, text |-> "{}"]}
    \cup {[status |-> 429, headers |-> h, json_ok |-> TRUE,
           json |-> EmptyDict, text |-> "{'code': 429}"] : h \in RetryAfterHeaders}

\* Lines 194-223: the handler's response to the provider's answer r
MeetingResult(r) ==
    IF r.status = 429
    THEN LET retry == PyInt(Get(r.headers, "Retry-After", JInt(60)))
         IN  IF retry.ok
             THEN Response(429, [error |-> "Rate limited", retry_after |-> retry.n])
             ELSE Response(500, ErrorBody(retry.exc))
    ELSE IF r.status # 201
    THEN Response(r.status, ErrorBody(r.text))
    ELSE IF ~r.json_ok
    THEN Response(500, ErrorBody("JSONDecodeError"))
    ELSE Response(201,
            [success |-> TRUE,
             meeting |-> [k \in {"id", "topic", "join_url", "start_url", "password",
                                 "start_time", "duration", "timezone", "created_at"}
                            |-> Get(r.json, k, "None")]])

(***************************************************************************)
(* The service as a state machine                                          *)
(***************************************************************************)
VARIABLES
    now,            \* time.time()
    tokenFile,      \* zoom_token.json
    issued,         \* token pairs the provider has issued
    pc,             \* where each scheduling request stands
    request,        \* the request a handler received: {} or {req}
    vals,           \* the handler's validated locals: {} or {values}
    token,          \* the handler's local variable token: {} or {record}
    obtained,       \* the instant token was loaded or refreshed
    before,         \* the token file as it was when the request arrived
    tokenAnswer,    \* the token endpoint's answer to the handler: {} or {answer}
    meetingCall,    \* the create-meeting request the handler sent: {} or {call}
    meetingAnswer,  \* the provider's answer to it: {} or {answer}
    loadCalls,      \* calls of load_token the handler made
    tokenCalls,     \* requests the handler sent to the token endpoint
    meetingCalls,   \* create-meeting requests the handler sent
    resp,           \* the handler's response: {} or {response}
    cb,             \* the authorization callback in progress
    fileText,       \* how the bytes of zoom_token.json read
    vphase,         \* the validation pipeline alone: its phase,
    vargs,          \*   the agent's arguments,
    vagent,         \*   the agent-side result,
    vapp,           \*   the service-side result on the body it was given,
    vtwin           \*   the service-side result on the twin of that body

svars == <<now, tokenFile, issued, pc, request, vals, token, obtained, before,
           tokenAnswer, meetingCall, meetingAnswer, loadCalls, tokenCalls,
           meetingCalls, resp, cb, fileText>>
vvars == <<vphase, vargs, vagent, vapp, vtwin>>
vars == <<svars, vvars>>

\* The handler frames the service can hold at once, and the frames in use
\* when requests are handled one at a time.
Reqs == {"w1", "w2"}
SerialReqs == {"w1"}

The(s) == CHOOSE x \in s : TRUE

\* Request bodies POSTed to /api/schedule/: every combination of an absent,
\* a well-formed and an ill-formed value of the four required fields, the
\* empty object, and a body that is not JSON.
BodyFields ==
    [topic : {"absent", "Sync"},
     start_time : {IsoStr("absent", 0, 0, 0), IsoStr("naive", 36000, 0, 0),
                   IsoStr("zulu", 16200, 0, 0), IsoStr("bad", 0, 0, 0)},
     duration : {[kind |-> "absent", n |-> 0], JInt(30), JInt(0), JInt(-5), JBadStr},
     timezone : {"absent", "Asia/Kolkata", "Mars/Phobos"}]

Present(f, k) ==
    IF k \in {"topic", "timezone"} THEN f[k] # "absent" ELSE f[k].kind # "absent"

BodyOf(f) == [k \in {x \in DOMAIN f : Present(f, x)} |-> f[k]]

Requests ==
    {[json_ok |-> TRUE, data |-> BodyOf(f)] : f \in BodyFields}
    \cup {[json_ok |-> FALSE, data |-> EmptyDict]}

\* Token files left by an earlier run or written by hand: none, or a
\* provider answer stored as it came, without expires_at.
InitialFiles ==
    {NoFile,
     {[access_token |-> 0, refresh_token |-> 0, expires_in |-> 60]},
     {[access_token |-> 0, refresh_token |-> 0]}}

CbIdle == [pc |-> "idle"]

InitService ==
    /\ now = 0
    /\ issued = 0
    /\ pc = [r \in Reqs |-> "idle"]
    /\ request = [r \in Reqs |-> {}]
    /\ vals = [r \in Reqs |-> {}]
    /\ token = [r \in Reqs |-> {}]
    /\ obtained = [r \in Reqs |-> 0]
    /\ before = [r \in Reqs |-> {}]
    /\ tokenAnswer = [r \in Reqs |-> {}]
    /\ meetingCall = [r \in Reqs |-> {}]
    /\ meetingAnswer = [r \in Reqs |-> {}]
    /\ loadCalls = [r \in Reqs |-> 0]
    /\ tokenCalls = [r \in Reqs |-> 0]
    /\ meetingCalls = [r \in Reqs |-> 0]
    /\ resp = [r \in Reqs |-> {}]
    /\ cb = CbIdle
    /\ fileText = Clean

InitValidationIdle ==
    /\ vphase = "off"
    /\ vargs = EmptyDict
    /\ vagent = EmptyDict
    /\ vapp = EmptyDict
    /\ vtwin = EmptyDict

Init == InitService /\ tokenFile \in InitialFiles /\ InitValidationIdle

\* No request and no callback is being handled.
Quiet == cb.pc = "idle" /\ \A r \in Reqs : pc[r] = "idle"

\* The clock advances.
Tick ==
    /\ now + TickStep <= MaxNow
    /\ now' = now + TickStep
    /\ UNCHANGED <<tokenFile, issued, pc, request, vals, token, obtained, before,
                   tokenAnswer, meetingCall, meetingAnswer, loadCalls, tokenCalls,
                   meetingCalls, resp, cb, vvars, fileText>>

\* The handler returns response x.
Respond(r, x) ==
    /\ resp' = [resp EXCEPT ![r] = {x}]
    /\ pc' = [pc EXCEPT ![r] = "done"]

\* schedule_meeting, lines 131-160: the request arrives and is validated.
Arrive(r, req) ==
    /\ pc[r] = "idle"
    /\ request' = [request EXCEPT ![r] = {req}]
    /\ before' = [before EXCEPT ![r] = tokenFile]
    /\ LET v == AppValidate(req)
       IN  IF v.ok
           THEN /\ vals' = [vals EXCEPT ![r] = {v}]
                /\ pc' = [pc EXCEPT ![r] = "load"]
                /\ resp' = resp
           ELSE /\ Respond(r, v.resp)
                /\ vals' = vals
    /\ UNCHANGED <<now, tokenFile, issued, token, obtained, tokenAnswer, meetingCall,
                   meetingAnswer, loadCalls, tokenCalls, meetingCalls, cb, vvars, fileText>>

\* A request arrives while nothing else is being handled.
Receive(r, req) == Quiet /\ Arrive(r, req)

\* AuthorizationError as the outer except clause would answer, had the
\* inner one not caught FileNotFoundError.
AuthorizationErrorAsInternalError ==
    Response(500, ErrorBody("zoom_token.json not found"))

\* Lines 167-172: the response to load_token's FileNotFoundError
AuthorizationError ==
    Response(401, [success |-> FALSE, error |-> "zoom_token.json not found",
                   setup_url |-> "http://localhost:5000/oauth/login"])

\* Lines 163-172: load_token and token_expired.  json.load (line 46) raises
\* JSONDecodeError on a file that is empty or has text after its object;
\* the outer except (lines 222-223) answers that with a 500.
LoadStep(r) ==
    /\ pc[r] = "load"
    /\ loadCalls' = [loadCalls EXCEPT ![r] = @ + 1]
    /\ IF tokenFile = NoFile
       THEN /\ Respond(r, AuthorizationError)
            /\ UNCHANGED <<tokenFile, token, obtained>>
       ELSE IF fileText # Clean
       THEN /\ Respond(r, Response(500, ErrorBody("JSONDecodeError")))
            /\ UNCHANGED <<tokenFile, token, obtained>>
       ELSE LET l == LoadToken(tokenFile, now)
            IN  /\ tokenFile' = l.file
                /\ token' = [token EXCEPT ![r] = {l.token}]
                /\ obtained' = [obtained EXCEPT ![r] = now]
                /\ pc' = [pc EXCEPT ![r] =
                            IF TokenExpired(l.token, now) THEN "refresh" ELSE "create"]
                /\ resp' = resp
    /\ UNCHANGED <<now, issued, request, vals, before, tokenAnswer, meetingCall,
                   meetingAnswer, tokenCalls, meetingCalls, cb, vvars, fileText>>

\* Lines 63-68: the token endpoint's answer a to the refresh request made
\* of record t, kept with the refresh_token that was sent.
Exchange(t, a) ==
    [status |-> a.status, body |-> a.body, text |-> a.text,
     sent |-> t["refresh_token"]]

\* RefreshRejected with the status check left out.
RefreshRejectedNever(a) == FALSE

\* Line 69: the token endpoint's answer a is a failure
RefreshRejected(a) == a.status # 200

\* Line 166, refresh_access_token (lines 59-74): a record without
\* refresh_token raises KeyError before anything is sent; any answer but 200
\* raises RuntimeError; both end in the outer except (lines 222-223).
RefreshStep(r) ==
    /\ pc[r] = "refresh"
    /\ LET t == The(token[r])
       IN  IF ~Has(t, "refresh_token")
           THEN /\ Respond(r, Response(500, ErrorBody("KeyError: 'refresh_token'")))
                /\ UNCHANGED <<tokenFile, issued, token, obtained, tokenAnswer, tokenCalls>>
           ELSE \E a \in TokenResponses(issued) :
                /\ tokenCalls' = [tokenCalls EXCEPT ![r] = @ + 1]
                /\ tokenAnswer' = [tokenAnswer EXCEPT ![r] = {Exchange(t, a)}]
                /\ IF RefreshRejected(a)
                   THEN /\ Respond(r, Response(500,
                                ErrorBody("Token refresh failed: " \o a.text)))
                        /\ UNCHANGED <<tokenFile, issued, token, obtained>>
                   ELSE LET new == RefreshRecord(a.body, now)
                        IN  /\ tokenFile' = SaveToken(new)
                            /\ issued' = issued + 1
                            /\ token' = [token EXCEPT ![r] = {new}]
                            /\ obtained' = [obtained EXCEPT ![r] = now]
                            /\ pc' = [pc EXCEPT ![r] = "create"]
                            /\ resp' = resp
    /\ UNCHANGED <<now, request, vals, before, meetingCall, meetingAnswer,
                   loadCalls, meetingCalls, cb, vvars, fileText>>

\* Lines 174-223: the create-meeting request and the response made of the
\* provider's answer.  A record without access_token raises KeyError at
\* line 177.
CreateStep(r) ==
    /\ pc[r] = "create"
    /\ LET t == The(token[r])
           payload == MeetingPayload(The(vals[r]))
       IN  IF ~Has(t, "access_token")
           THEN /\ Respond(r, Response(500, ErrorBody("KeyError: 'access_token'")))
                /\ UNCHANGED <<meetingCall, meetingAnswer, meetingCalls>>
           ELSE \E a \in MeetingResponses(payload) :
                /\ meetingCalls' = [meetingCalls EXCEPT ![r] = @ + 1]
                /\ meetingCall' = [meetingCall EXCEPT ![r] =
                        {[bearer |-> t["access_token"], token |-> t, json |-> payload]}]
                /\ meetingAnswer' = [meetingAnswer EXCEPT ![r] = {a}]
                /\ Respond(r, MeetingResult(a))
    /\ UNCHANGED <<now, tokenFile, issued, request, vals, token, obtained, before,
                   tokenAnswer, loadCalls, tokenCalls, cb, vvars, fileText>>

\* The response is delivered and the handler's frame is gone.
Finish(r) ==
    /\ pc[r] = "done"
    /\ pc' = [pc EXCEPT ![r] = "idle"]
    /\ request' = [request EXCEPT ![r] = {}]
    /\ vals' = [vals EXCEPT ![r] = {}]
    /\ token' = [token EXCEPT ![r] = {}]
    /\ obtained' = [obtained EXCEPT ![r] = 0]
    /\ before' = [before EXCEPT ![r] = {}]
    /\ tokenAnswer' = [tokenAnswer EXCEPT ![r] = {}]
    /\ meetingCall' = [meetingCall EXCEPT ![r] = {}]
    /\ meetingAnswer' = [meetingAnswer EXCEPT ![r] = {}]
    /\ loadCalls' = [loadCalls EXCEPT ![r] = 0]
    /\ tokenCalls' = [tokenCalls EXCEPT ![r] = 0]
    /\ meetingCalls' = [meetingCalls EXCEPT ![r] = 0]
    /\ resp' = [resp EXCEPT ![r] = {}]
    /\ UNCHANGED <<now, tokenFile, issued, cb, vvars, fileText>>

\* oauth_callback (lines 96-123) with the value of the code parameter ("" when
\* the callback carries none).  cb keeps the code, the provider's answer
\* (if it was asked), the status returned and the token file as it was.
OauthCallback(code) ==
    /\ Quiet
    /\ IF code = ""
       THEN /\ cb' = [pc |-> "done", code |-> code, calls |-> 0, answer |-> {},
                      status |-> 400, at |-> now, before |-> tokenFile,
                      text |-> "Error: Authorization denied or code missing."]
            /\ UNCHANGED <<tokenFile, issued>>
       ELSE \E a \in TokenResponses(issued) :
            IF a.status # 200
            THEN /\ cb' = [pc |-> "done", code |-> code, calls |-> 1, answer |-> {a},
                           status |-> 500, at |-> now, before |-> tokenFile,
                           text |-> "Token exchange failed: " \o a.text]
                 /\ UNCHANGED <<tokenFile, issued>>
            ELSE /\ tokenFile' = SaveToken(CallbackRecord(a.body, now))
                 /\ issued' = issued + 1
                 /\ cb' = [pc |-> "done", code |-> code, calls |-> 1, answer |-> {a},
                           status |-> 200, at |-> now, before |-> tokenFile,
                           text |-> "Success!"]
    /\ UNCHANGED <<now, pc, request, vals, token, obtained, before, tokenAnswer,
                   meetingCall, meetingAnswer, loadCalls, tokenCalls, meetingCalls,
                   resp, vvars, fileText>>

\* The callback's response is delivered.
CallbackDone ==
    /\ cb.pc = "done"
    /\ cb' = CbIdle
    /\ UNCHANGED <<now, tokenFile, issued, pc, request, vals, token, obtained, before,
                   tokenAnswer, meetingCall, meetingAnswer, loadCalls, tokenCalls,
                   meetingCalls, resp, vvars, fileText>>

Next ==
    \/ Tick
    \/ \E r \in SerialReqs : \E req \in Requests : Receive(r, req)
    \/ \E r \in SerialReqs : LoadStep(r)
    \/ \E r \in SerialReqs : RefreshStep(r)
    \/ \E r \in SerialReqs : CreateStep(r)
    \/ \E r \in SerialReqs : Finish(r)
    \/ \E code \in {"", "code"} : OauthCallback(code)
    \/ CallbackDone

\* Requests and callbacks are handled one at a time, the clock advancing
\* between the handler's steps.
Spec == Init /\ [][Next]_vars

(***************************************************************************)
(* Requests handled at the same time.  The handlers run in threads of one  *)
(* process (app.run, line 253) and share nothing but zoom_token.json; a    *)
(* handler can be overtaken wherever it waits: for the provider, and for   *)
(* the file between opening it and writing it.  refresh_access_token is    *)
(* taken in its three steps: the exchange, save_token opening the file,    *)
(* save_token writing it.  The writers here are scheduling requests; the   *)
(* authorization callback writes through the same save_token.              *)
(***************************************************************************)
\* Lines 59-72: the refresh exchange and the record made of a 200 answer.
RefreshAsk(r) ==
    /\ pc[r] = "refresh"
    /\ LET t == The(token[r])
       IN  IF ~Has(t, "refresh_token")
           THEN /\ Respond(r, Response(500, ErrorBody("KeyError: 'refresh_token'")))
                /\ UNCHANGED <<issued, token, obtained, tokenAnswer, tokenCalls>>
           ELSE \E a \in TokenResponses(issued) :
                /\ tokenCalls' = [tokenCalls EXCEPT ![r] = @ + 1]
                /\ tokenAnswer' = [tokenAnswer EXCEPT ![r] = {Exchange(t, a)}]
                /\ IF RefreshRejected(a)
                   THEN /\ Respond(r, Response(500,
                                ErrorBody("Token refresh failed: " \o a.text)))
                        /\ UNCHANGED <<issued, token, obtained>>
                   ELSE /\ issued' = issued + 1
                        /\ token' = [token EXCEPT ![r] = {RefreshRecord(a.body, now)}]
                        /\ obtained' = [obtained EXCEPT ![r] = now]
                        /\ pc' = [pc EXCEPT ![r] = "save"]
                        /\ resp' = resp
    /\ UNCHANGED <<now, tokenFile, fileText, request, vals, before, meetingCall,
                   meetingAnswer, loadCalls, meetingCalls, cb, vvars>>

\* Line 53, open(TOKEN_FILE, "w"): the file is emptied.
SaveOpen(r) ==
    /\ pc[r] = "save"
    /\ tokenFile' = {EmptyDict}
    /\ fileText' = Truncated
    /\ pc' = [pc EXCEPT ![r] = "write"]
    /\ UNCHANGED <<now, issued, request, vals, token, obtained, before, tokenAnswer,
                   meetingCall, meetingAnswer, loadCalls, tokenCalls, meetingCalls,
                   resp, cb, vvars>>

\* Line 54 and the end of the with block: the dump is written, save_token
\* and refresh_access_token return.
SaveWrite(r) ==
    /\ pc[r] = "write"
    /\ LET w == WriteDump(tokenFile, fileText, The(token[r]))
       IN  /\ tokenFile' = w.file
           /\ fileText' = w.text
    /\ pc' = [pc EXCEPT ![r] = "create"]
    /\ UNCHANGED <<now, issued, request, vals, token, obtained, before, tokenAnswer,
                   meetingCall, meetingAnswer, loadCalls, tokenCalls, meetingCalls,
                   resp, cb, vvars>>

\* The requests of the concurrent handlers: a valid one and one that is
\* turned away before the token is looked at.
ConcurrentRequests ==
    {[json_ok |-> TRUE,
      data |-> [topic |-> "Sync", start_time |-> IsoStr("naive", 36000, 0, 0),
                duration |-> JInt(30), timezone |-> "Asia/Kolkata"]],
     [json_ok |-> FALSE, data |-> EmptyDict]}

\* The token file the concurrent handlers start from: a record a refresh at
\* instant -100 wrote, expired at every instant from 0 on.
ConcurrentFiles ==
    {{[access_token |-> 0, refresh_token |-> 0, expires_in |-> 200, expires_at |-> 100]}}

InitConcurrent == InitService /\ tokenFile \in ConcurrentFiles /\ InitValidationIdle

\* The handlers overlap within one reading of the clock.
NextConcurrent ==
    \/ \E r \in Reqs : \E req \in ConcurrentRequests : Arrive(r, req)
    \/ \E r \in Reqs : LoadStep(r)
    \/ \E r \in Reqs : RefreshAsk(r)
    \/ \E r \in Reqs : SaveOpen(r)
    \/ \E r \in Reqs : SaveWrite(r)
    \/ \E r \in Reqs : CreateStep(r)
    \/ \E r \in Reqs : Finish(r)

SpecConcurrent == InitConcurrent /\ [][NextConcurrent]_vars

(***************************************************************************)
(* The validation pipeline alone: the agent's schedule_meeting is called   *)
(* with arguments drawn from AgentArgs, and the request body it builds is  *)
(* validated by the service.                                               *)
(***************************************************************************)
AgentStartTimes ==
    {IsoStr("empty", 0, 0, 0), IsoStr("bad", 0, 0, 0), IsoStr("zulu", 16200, 0, 0)}
    \cup {IsoStr("naive", sec, us, 0) : sec \in {0, 5400, 36000}, us \in {0, 500000}}
    \cup {IsoStr("offset", 36000, 0, 19800), IsoStr("offset", 5400, 0, -14400),
          IsoStr("offset", 36000, 500000, 0)}

AgentArgs ==
    [topic : {"", "Sync"},
     start_time : AgentStartTimes,
     duration : {JNull, JInt(0), JInt(-5), JInt(30), JNumStr(30), JBadStr, JFloat(30)},
     timezone : {"", "Asia/Kolkata", "America/New_York", "UTC", "asia/kolkata",
                 "Mars/Phobos"},
     join_before_host : {TRUE},
     mute_upon_entry : {TRUE},
     waiting_room : {FALSE}]

InitValidation ==
    /\ InitService
    /\ tokenFile = NoFile
    /\ vphase = "args"
    /\ vargs \in AgentArgs
    /\ vagent = EmptyDict
    /\ vapp = EmptyDict
    /\ vtwin = EmptyDict

\* ZoomAPI.schedule_meeting runs up to its POST (lines 36-87).
AgentStep ==
    /\ vphase = "args"
    /\ vagent' = AgentValidate(vargs)
    /\ vphase' = "agent"
    /\ UNCHANGED <<svars, vargs, vapp, vtwin>>

\* The service validates the body the agent posted (app.py lines 131-160).
ServiceStep ==
    /\ vphase = "agent"
    /\ vagent.kind = "post"
    /\ vapp' = AppValidate([json_ok |-> TRUE, data |-> vagent.payload])
    /\ vphase' = "service"
    /\ UNCHANGED <<svars, vargs, vagent, vtwin>>

\* The JSON body of a client that posts the four fields of a as they are,
\* without the agent in between (app.py line 132, request.get_json()).
ArgsBody(a) ==
    [topic |-> a.topic, start_time |-> a.start_time,
     duration |-> a.duration, timezone |-> a.timezone]

\* The service validates the fields as they are (app.py lines 131-160).
DirectStep ==
    /\ vphase = "args"
    /\ vapp' = AppValidate([json_ok |-> TRUE, data |-> ArgsBody(vargs)])
    /\ vphase' = "direct"
    /\ UNCHANGED <<svars, vargs, vagent, vtwin>>

\* UTC offsets a start time can carry, in seconds
TwinOffsets == {19800, -14400, -18000, 0}

\* After a body whose start time has no offset, the service validates its
\* twin: the same body with the same clock reading followed by offset off.
TwinStep(off) ==
    /\ vphase = "direct"
    /\ vargs.start_time.kind = "naive"
    /\ LET twin == [ArgsBody(vargs) EXCEPT
                        !.start_time = IsoStr("offset", vargs.start_time.sec,
                                              vargs.start_time.us, off)]
       IN  vtwin' = AppValidate([json_ok |-> TRUE, data |-> twin])
    /\ vphase' = "twin"
    /\ UNCHANGED <<svars, vargs, vagent, vapp>>

NextValidation ==
    \/ AgentStep
    \/ ServiceStep
    \/ DirectStep
    \/ \E off \in TwinOffsets : TwinStep(off)

SpecValidation == InitValidation /\ [][NextValidation]_vars

(***************************************************************************)
(* Properties                                                              *)
(***************************************************************************)
\* The request of frame r is one the data model calls valid: a JSON body
\* with the four fields, a recognized zone, a start time that parses and a
\* duration that is a positive integer.
ValidRequest(req) ==
    /\ req.json_ok
    /\ \A k \in {"topic", "start_time", "duration", "timezone"} : Has(req.data, k)
    /\ req.data["timezone"] \in AllTimezones
    /\ req.data["start_time"].kind \in {"naive", "offset", "zulu"}
    /\ req.data["duration"].kind = "int"
    /\ req.data["duration"].n > 0

\* The handler's refresh exchange was answered with a failure.
RefreshFailed(r) == tokenAnswer[r] # {} /\ The(tokenAnswer[r]).status # 200

\* x is an error response: a 4xx/5xx status, success false, an error field.
IsErrorResponse(x) ==
    /\ x.status \in 400..599
    /\ Has(x.body, "success")
    /\ x.body["success"] = FALSE
    /\ Has(x.body, "error")

\* C1: the token record sent with the create-meeting request has expires_at
\* at least 120 seconds after the instant it was loaded or refreshed, and a
\* failed refresh ends the request with an error and no create-meeting
\* request.  (Stated for stored records that carry expires_at.)
C1_UsedTokenHasMargin ==
    \A r \in Reqs :
        (before[r] # {} /\ Has(The(before[r]), "expires_at")) =>
            /\ meetingCall[r] # {} =>
                  The(meetingCall[r]).token["expires_at"] >= obtained[r] + Margin
            /\ RefreshFailed(r) =>
                  /\ meetingCalls[r] = 0
                  /\ pc[r] = "done"
                  /\ IsErrorResponse(The(resp[r]))

\* C2: a request that is not valid (a field absent, an unknown zone, a start
\* time that does not parse, a duration that is no positive integer) is
\* answered with an error, and load_token, the token endpoint and the
\* create-meeting endpoint are not called for it.
C2_InvalidRequestStopsAtValidation ==
    \A r \in Reqs :
        (request[r] # {} /\ ~ValidRequest(The(request[r]))) =>
            /\ loadCalls[r] = 0
            /\ tokenCalls[r] = 0
            /\ meetingCalls[r] = 0
            /\ pc[r] = "done" => IsErrorResponse(The(resp[r]))

\* C3: after a refresh whose 200 answer has an access_token and no
\* refresh_token, the record returned and persisted carries the
\* refresh_token of the record that was refreshed.
C3_RefreshKeepsRefreshToken ==
    \A r \in Reqs :
        (/\ tokenAnswer[r] # {}
         /\ The(tokenAnswer[r]).status = 200
         /\ Has(The(tokenAnswer[r]).body, "access_token")
         /\ ~Has(The(tokenAnswer[r]).body, "refresh_token")
         /\ Has(The(before[r]), "expires_at")
         /\ ValidRequest(The(request[r]))) =>
            /\ Has(The(token[r]), "refresh_token")
            /\ The(token[r])["refresh_token"] = The(before[r])["refresh_token"]
            /\ tokenFile = token[r]

\* C4: whatever save_token writes is a complete record: every step that
\* changes the token file leaves in it a record with access_token,
\* refresh_token and expires_at.
C4_SavedRecordComplete ==
    [][tokenFile' # tokenFile =>
          /\ tokenFile' # NoFile
          /\ {"access_token", "refresh_token", "expires_at"}
                \subseteq DOMAIN The(tokenFile')]_vars

\* C5: a request that passed validation while no token file exists is
\* answered 401 with success false and a setup URL; neither the token
\* endpoint nor the create-meeting endpoint is called, and the token file
\* still does not exist.
C5_NoTokenGivesAuthorizationError ==
    \A r \in Reqs :
        (vals[r] # {} /\ before[r] = NoFile) =>
            /\ tokenCalls[r] = 0
            /\ meetingCalls[r] = 0
            /\ tokenFile = NoFile
            /\ pc[r] \in {"load", "done"}
            /\ pc[r] = "done" =>
                  /\ The(resp[r]).status = 401
                  /\ The(resp[r]).body["success"] = FALSE
                  /\ Has(The(resp[r]).body, "setup_url")

C5_Witness ==
    \E r \in Reqs :
        /\ pc[r] = "done"
        /\ ValidRequest(The(request[r]))
        /\ before[r] = NoFile
        /\ loadCalls[r] = 1
        /\ The(resp[r]).status = 401

\* C6: every response of the scheduling endpoint is 201 with success true
\* and a meeting, or a 4xx/5xx status with success false and an error.
C6_ResponseEnvelope ==
    \A r \in Reqs :
        resp[r] # {} =>
            \/ /\ The(resp[r]).status = 201
               /\ Has(The(resp[r]).body, "success")
               /\ The(resp[r]).body["success"] = TRUE
               /\ Has(The(resp[r]).body, "meeting")
            \/ IsErrorResponse(The(resp[r]))

\* C7: when the provider answers the create-meeting request with 429, the
\* response is the rate-limited result, status 429 with retry_after the
\* value of the Retry-After header, or 60 without the header, and the
\* create-meeting request was sent once.
C7_RateLimited ==
    \A r \in Reqs :
        (meetingAnswer[r] # {} /\ The(meetingAnswer[r]).status = 429) =>
            /\ meetingCalls[r] = 1
            /\ The(resp[r]).status = 429
            /\ Has(The(resp[r]).body, "retry_after")
            /\ The(resp[r]).body["retry_after"] =
                  IF Has(The(meetingAnswer[r]).headers, "Retry-After")
                  THEN The(meetingAnswer[r]).headers["Retry-After"].n
                  ELSE 60

\* C8 as claimed: after a failed refresh the request has ended with an
\* error response, the token endpoint was called once, no create-meeting
\* request was sent, and the token file is what it was when the request
\* arrived.
C8_FailedRefreshLeavesFileAsReceived ==
    \A r \in Reqs :
        RefreshFailed(r) =>
            /\ pc[r] = "done"
            /\ IsErrorResponse(The(resp[r]))
            /\ tokenCalls[r] = 1
            /\ meetingCalls[r] = 0
            /\ tokenFile = before[r]

\* C8 as amended: after a failed refresh the request has ended with an
\* error response, the token endpoint was called once, no create-meeting
\* request was sent, and the token file is as load_token left it: what it
\* was when the request arrived if that record carried expires_at, else that
\* record with the expires_at load_token gave it and nothing else changed.
C8_FailedRefreshLeavesFileAsLoaded ==
    \A r \in Reqs :
        RefreshFailed(r) =>
            /\ pc[r] = "done"
            /\ IsErrorResponse(The(resp[r]))
            /\ tokenCalls[r] = 1
            /\ meetingCalls[r] = 0
            /\ meetingCall[r] = {}
            /\ tokenFile = token[r]
            /\ IF Has(The(before[r]), "expires_at")
               THEN tokenFile = before[r]
               ELSE tokenFile =
                      {Put(The(before[r]), "expires_at", The(token[r])["expires_at"])}

C8_Witness ==
    \E r \in Reqs :
        /\ RefreshFailed(r)
        /\ pc[r] = "done"
        /\ Has(The(before[r]), "expires_at")
        /\ The(resp[r]).status = 500

\* C9: when the authorization callback has answered: without a code it
\* answered 400 and asked the provider nothing; with a code the provider
\* rejected it answered 500; in both cases the token file is what it was.
\* With a code the provider accepted, the token file holds the provider's
\* answer with expires_at = the instant of the callback + expires_in (3600
\* when the answer has none), which is the record a refresh makes of the
\* same answer.
C9_CallbackPersistsOnlyOnSuccess ==
    cb.pc = "done" =>
        /\ cb.code = "" =>
              cb.status = 400 /\ cb.calls = 0 /\ tokenFile = cb.before
        /\ (cb.code # "" /\ The(cb.answer).status # 200) =>
              cb.status = 500 /\ cb.calls = 1 /\ tokenFile = cb.before
        /\ (cb.code # "" /\ The(cb.answer).status = 200) =>
              /\ cb.status = 200
              /\ cb.calls = 1
              /\ tokenFile # NoFile
              /\ \A k \in DOMAIN The(cb.answer).body :
                    The(tokenFile)[k] = The(cb.answer).body[k]
              /\ The(tokenFile)["expires_at"] =
                    cb.at + (IF Has(The(cb.answer).body, "expires_in")
                             THEN The(cb.answer).body["expires_in"]
                             ELSE 3600)
              /\ tokenFile = {RefreshRecord(The(cb.answer).body, cb.at)}

C9_Witness ==
    /\ cb.pc = "done"
    /\ cb.status = 200
    /\ cb.before = NoFile
    /\ Has(The(cb.answer).body, "expires_in")
    /\ The(tokenFile)["expires_at"] = cb.at + 60

\* The agent was called with a valid request.
ValidArgs(a) ==
    /\ a.topic # ""
    /\ a.start_time.kind \in {"naive", "offset", "zulu"}
    /\ a.duration.kind = "int"
    /\ a.duration.n > 0
    /\ a.timezone \in AllTimezones

\* C10: for a valid request the agent posts a normalized body, and the
\* service, validating that body, accepts it and arrives at the same UTC
\* start time, the same duration and the same timezone.
C10_RevalidationIsIdempotent ==
    ValidArgs(vargs) =>
        /\ vphase = "agent" => vagent.kind = "post"
        /\ vphase = "service" =>
              /\ vapp.ok
              /\ vagent.payload["start_time"].kind = "zulu"
              /\ vapp.iso_start = vagent.payload["start_time"]
              /\ JInt(vapp.duration) = vargs.duration
              /\ vapp.timezone_str = vargs.timezone
              /\ vapp.topic = vargs.topic

C10_Witness ==
    /\ vphase = "service"
    /\ ValidArgs(vargs)
    /\ vargs.start_time.kind = "naive"
    /\ vargs.timezone = "Asia/Kolkata"
    /\ vapp.ok
    /\ vapp.iso_start.sec = vargs.start_time.sec - 19800

\* The UTC offsets zone has at wall-clock reading sec: two in the hour New
\* York's clocks show twice on 2025-11-02 (01:00 to 02:00, daylight time
\* and then standard time), one elsewhere.
ZoneOffsets(zone, sec) ==
    CASE zone = "Asia/Kolkata" -> {19800}
      [] zone = "America/New_York" ->
            IF sec < 3600 THEN {-14400}
            ELSE IF sec < 7200 THEN {-14400, -18000}
            ELSE {-18000}
      [] OTHER -> {0}

\* The service accepted a body whose start time has no offset and then its
\* twin carrying an offset the body's zone has at that clock reading.
TwinOfZone ==
    /\ vphase = "twin"
    /\ vapp.ok
    /\ vtwin.ok
    /\ vtwin.data["start_time"].off
          \in ZoneOffsets(vargs.timezone, vargs.start_time.sec)

\* C11 as claimed: for every zone and wall-clock time, a start time without
\* offset read in the zone and the same wall-clock time carrying an offset
\* of that zone are accepted alike and give the identical UTC start time in
\* the create-meeting payload.
C11_OffsetAndZoneGiveSameInstant ==
    (/\ vphase = "twin"
     /\ vapp.ok
     /\ vtwin.data["start_time"].off
           \in ZoneOffsets(vargs.timezone, vargs.start_time.sec)) =>
        /\ vtwin.ok
        /\ MeetingPayload(vtwin).start_time = MeetingPayload(vapp).start_time

\* C11 as amended: the two give the identical UTC start time when the
\* wall-clock time occurs once in the zone; when it occurs twice the start
\* time without offset is read as standard time, so it gives the UTC start
\* time of the twin with the standard-time offset, one hour after that of
\* the twin with the daylight-time offset.
C11_OffsetAndZoneGiveSameInstantOnce ==
    (/\ vphase = "twin"
     /\ vapp.ok
     /\ vtwin.data["start_time"].off
           \in ZoneOffsets(vargs.timezone, vargs.start_time.sec)) =>
        /\ vtwin.ok
        /\ MeetingPayload(vapp).start_time.kind = "zulu"
        /\ MeetingPayload(vtwin).start_time.kind = "zulu"
        /\ LET offs == ZoneOffsets(vargs.timezone, vargs.start_time.sec)
               standard == CHOOSE o \in offs : \A x \in offs : o <= x
               mine == MeetingPayload(vapp).start_time
               twin == MeetingPayload(vtwin).start_time
           IN  IF vtwin.data["start_time"].off = standard
               THEN twin = mine
               ELSE twin.sec = mine.sec - 3600 /\ twin.us = mine.us

C11_Witness ==
    /\ TwinOfZone
    /\ vargs.timezone = "Asia/Kolkata"
    /\ vargs.start_time = IsoStr("naive", 36000, 0, 0)
    /\ vtwin.data["start_time"] = IsoStr("offset", 36000, 0, 19800)
    /\ MeetingPayload(vapp).start_time = IsoStr("zulu", 16200, 0, 0)
    /\ MeetingPayload(vtwin).start_time = IsoStr("zulu", 16200, 0, 0)

\* C13: every successful refresh moves the expiry strictly forward: a step
\* in which refresh_access_token replaces the persisted record leaves a
\* record whose expires_at is greater than that of the record it replaced.
\* (Stated for replaced records that were made at an earlier instant than
\* the refresh, so that the two expiries are not computed from one reading
\* of the clock.)
C13_RefreshMovesExpiryForward ==
    [][\A r \in Reqs :
          (/\ pc[r] = "refresh"
           /\ pc'[r] = "create"
           /\ Has(The(tokenFile), "expires_in")
           /\ The(tokenFile)["expires_at"] - The(tokenFile)["expires_in"] < now) =>
              /\ tokenFile' = token'[r]
              /\ The(tokenFile')["expires_at"] > The(tokenFile)["expires_at"]]_vars

\* The four fields are given, the duration is a positive integer, and the
\* timezone is not a recognized zone.
UnknownZoneArgs(a) ==
    /\ a.topic # ""
    /\ a.start_time.kind # "empty"
    /\ a.duration.kind = "int"
    /\ a.duration.n > 0
    /\ a.timezone # ""
    /\ a.timezone \notin AllTimezones

\* C14: given the four fields with a timezone that is not a recognized zone,
\* both validators answer with the invalid-timezone error whatever the start
\* time is: the agent's result is its invalid-timezone result, and the
\* service's response is 400 with the error "Invalid timezone: <name>".
C14_UnknownZoneReportedFirst ==
    UnknownZoneArgs(vargs) =>
        /\ vphase = "agent" => vagent.kind = "bad_tz"
        /\ vphase = "direct" =>
              /\ ~vapp.ok
              /\ vapp.resp = Response(400,
                     ErrorBody("Invalid timezone: " \o vargs.timezone))

\* The duration given to the agent is None, 0 or negative.
NoPositiveDuration(a) ==
    \/ a.duration.kind = "null"
    \/ a.duration.kind = "int" /\ a.duration.n <= 0

CompleteAnswers ==
    \A r \in Reqs :
        (tokenAnswer[r] # {} /\ The(tokenAnswer[r]).status = 200) =>
            {"access_token", "refresh_token", "expires_in"}
                \subseteq DOMAIN The(tokenAnswer[r]).body

\* C12: save_token overwrites the file atomically: with the file present
\* from the start, every load_token that has run, also one that ran while
\* another handler was inside save_token, returned a record, the one the
\* file held before that save_token or the one it wrote; it never found the
\* file empty or partly written.  (Stated for complete refresh answers.)
C12_LoadSeesCompleteRecord ==
    CompleteAnswers =>
        \A r \in Reqs :
            loadCalls[r] > 0 =>
                /\ token[r] # {}
                /\ pc[r] = "done" => The(resp[r]).body["error"] # "JSONDecodeError"

\* Handlers r1 and r2 refreshed the same record at the same time: each sent
\* the refresh_token of that record, each was answered 200, and the
\* save_token of each has returned.
RefreshedTogether(r1, r2) ==
    /\ r1 # r2
    /\ tokenAnswer[r1] # {} /\ The(tokenAnswer[r1]).status = 200
    /\ tokenAnswer[r2] # {} /\ The(tokenAnswer[r2]).status = 200
    /\ The(tokenAnswer[r1]).sent = The(tokenAnswer[r2]).sent
    /\ pc[r1] \in {"create", "done"}
    /\ pc[r2] \in {"create", "done"}

\* C16: two handlers that loaded the same expired record each make one
\* refresh exchange of their own and each write the file; when both writes
\* are done the file holds exactly the record one of them wrote, the later
\* one's, and each handler sends its create-meeting request with the
\* access_token of its own refresh answer.  (Stated for complete refresh
\* answers.)
C16_LastWriterWins ==
    CompleteAnswers =>
        \A r1, r2 \in Reqs :
            RefreshedTogether(r1, r2) =>
                /\ tokenCalls[r1] = 1
                /\ token[r1] = {RefreshRecord(The(tokenAnswer[r1]).body, obtained[r1])}
                /\ meetingCall[r1] # {} =>
                      The(meetingCall[r1]).bearer =
                          The(tokenAnswer[r1]).body["access_token"]
                /\ fileText = Clean
                /\ tokenFile \in {token[r1], token[r2]}

=============================================================================
